---------------------------- MODULE Spec2Model ----------------------------
(***************************************************************************)
(* Model of generator.py: the generator of a calendar of Swedish holidays. *)
(*                                                                         *)
(* generate(start_year, count) is modelled statement by statement: one     *)
(* action per statement of its body (the three statements that set up the  *)
(* empty calendar are one action), the program counter pc naming the       *)
(* source line that runs next.  The dates are the proleptic Gregorian      *)
(* dates of datetime.date, with the arithmetic of date +/- timedelta done  *)
(* through ordinals as the library does it, and dateutil.easter.easter     *)
(* computed by its algorithm.  The Swedish texts are written in ASCII.     *)
(***************************************************************************)
EXTENDS Integers, Sequences, FiniteSets, TLC

VARIABLES
    start_year,   \* argument of the running call of generate
    count,        \* argument of the running call of generate
    pc,           \* the line of generate that runs next, or "done"
    i,            \* loop variable of generate (line 27)
    calendar,     \* local variable calendar: the components added so far
    uuid_clock,   \* process-wide state of uuid.uuid1(): the last stamp used
    returned,     \* what each finished call handed to its caller
    occ           \* what a calendar application computed from a document

vars == <<start_year, count, pc, i, calendar, uuid_clock, returned, occ>>

---------------------------------------------------------------------------
(* Bounds of the model.                                                    *)

\* largest count argument tried
MaxCount == 3
\* the start years tried include 2000 .. 2000 + YearSpan
YearSpan == 30
\* number of calls of generate in one run of SpecTwice
MaxCalls == 2
\* largest count argument tried in SpecTwice and SpecRecur
MaxCountTwice == 1
\* a calendar application evaluates start_year .. start_year + EvalSpan
EvalSpan == 399

---------------------------------------------------------------------------
(* datetime.date and datetime.timedelta                                    *)

MINYEAR == 1
MAXYEAR == 9999

IsLeap(y) == (y % 4 = 0) /\ ((y % 100 # 0) \/ (y % 400 = 0))

DaysInMonth(y, m) ==
    IF m = 2 THEN (IF IsLeap(y) THEN 29 ELSE 28)
    ELSE IF m \in {4, 6, 9, 11} THEN 30 ELSE 31

\* number of days before January 1st of year y (year 1 starts at 0)
DaysBeforeYear(y) ==
    LET p == y - 1 IN p * 365 + (p \div 4) - (p \div 100) + (p \div 400)

RECURSIVE DaysBeforeMonth(_, _)
DaysBeforeMonth(y, m) ==
    IF m = 1 THEN 0 ELSE DaysBeforeMonth(y, m - 1) + DaysInMonth(y, m - 1)

\* date(y, m, d) raises ValueError unless this holds
DateOKMinYearZero(y, m, d) ==
    /\ 0 <= y /\ y <= MAXYEAR
    /\ 1 <= m /\ m <= 12
    /\ 1 <= d /\ d <= DaysInMonth(y, m)

DateOK(y, m, d) ==
    /\ MINYEAR <= y /\ y <= MAXYEAR
    /\ 1 <= m /\ m <= 12
    /\ 1 <= d /\ d <= DaysInMonth(y, m)

Date(y, m, d) == [year |-> y, month |-> m, day |-> d]

\* date.toordinal(): January 1st of year 1 is day 1
ToOrdinal(dt) ==
    DaysBeforeYear(dt.year) + DaysBeforeMonth(dt.year, dt.month) + dt.day

\* date.fromordinal(n), as _ord2ymd computes it
FromOrdinal(ord) ==
    LET n0   == ord - 1
        n400 == n0 \div 146097
        r400 == n0 % 146097
        n100 == r400 \div 36524
        r100 == r400 % 36524
        n4   == r100 \div 1461
        r4   == r100 % 1461
        n1   == r4 \div 365
        n    == r4 % 365
        year == n400 * 400 + 1 + n100 * 100 + n4 * 4 + n1
    IN  IF n1 = 4 \/ n100 = 4
        THEN Date(year - 1, 12, 31)
        ELSE LET m0    == (n + 50) \div 32
                 month == IF DaysBeforeMonth(year, m0) > n THEN m0 - 1 ELSE m0
             IN  Date(year, month, n - DaysBeforeMonth(year, month) + 1)

\* date.weekday(): Monday is 0, Sunday is 6
Weekday(dt) == (ToOrdinal(dt) + 6) % 7

\* date + timedelta(days=k); the caller checks the range first
AddDays(dt, k) == FromOrdinal(ToOrdinal(dt) + k)

TimedeltaWeeksDropped(w, d) == d

\* timedelta(weeks=w, days=d) in days
Timedelta(w, d) == 7 * w + d

\* dateutil.easter.easter(year), method EASTER_WESTERN: month and day
Easter(year) ==
    LET y == year
        g == y % 19
        c == y \div 100
        h == (c - (c \div 4) - ((8 * c + 13) \div 25) + 19 * g + 15) % 30
        k == h - (h \div 28) * (1 - (h \div 28) * (29 \div (h + 1)) * ((21 - g) \div 11))
        j == (y + (y \div 4) + k + 2 - c + (c \div 4)) % 7
        p == k - j
        d == 1 + ((p + 27 + ((p + 6) \div 40)) % 31)
        m == 3 + ((p + 26) \div 30)
    IN  Date(y, m, d)

---------------------------------------------------------------------------
(* Work, Holiday, FixedHoliday                                             *)

Work == {"FREE", "DEFACTO", "DEPENDS"}

\* uuid.uuid1(): a stamp later than every stamp handed out before
Uuid1(clock) == clock + 1

CategoriesDepends == "Ledighet enligt avtal"
DescriptionDepends ==
    "Denna dag har inte lagstadgad stallning som arbetsfri dag. Manga arbetsplatser har anda forkortad arbetstid enligt kollektivavtal eller lokala avtal."
DescriptionDefacto ==
    "Denna dag raknas som sondag enligt 3 a paragrafen i Semesterlagen och ar darmed arbetsfri."

HolidayDefactoTagged(uid, dtstart, summary, work) ==
    [ uid         |-> uid,
      transp      |-> "TRANSPARENT",
      dtstart     |-> dtstart,
      summary     |-> summary,
      categories  |-> IF work \in {"DEPENDS", "DEFACTO"} THEN <<CategoriesDepends>> ELSE <<>>,
      description |-> IF work = "DEPENDS" THEN <<DescriptionDepends>>
                      ELSE IF work = "DEFACTO" THEN <<DescriptionDefacto>>
                      ELSE <<>>,
      rrule       |-> <<>> ]

\* Holiday.__init__: a property that was not added is the empty sequence
Holiday(uid, dtstart, summary, work) ==
    [ uid         |-> uid,
      transp      |-> "TRANSPARENT",
      dtstart     |-> dtstart,
      summary     |-> summary,
      categories  |-> IF work = "DEPENDS" THEN <<CategoriesDepends>> ELSE <<>>,
      description |-> IF work = "DEPENDS" THEN <<DescriptionDepends>>
                      ELSE IF work = "DEFACTO" THEN <<DescriptionDefacto>>
                      ELSE <<>>,
      rrule       |-> <<>> ]

\* vRecur(): a key that was not set is the empty sequence
Recur(byday, bymonthday, bymonth) ==
    [ FREQ |-> "YEARLY", BYDAY |-> byday, BYMONTHDAY |-> bymonthday,
      BYMONTH |-> bymonth ]

FixedHolidayByMonth(uid, dtstart, summary, work) ==
    [ Holiday(uid, dtstart, summary, work) EXCEPT
        !.rrule = <<Recur(<<>>, <<>>, <<dtstart.month>>)>> ]

\* FixedHoliday.__init__
FixedHoliday(uid, dtstart, summary, work) ==
    [ Holiday(uid, dtstart, summary, work) EXCEPT
        !.rrule = <<Recur(<<>>, <<>>, <<>>)>> ]

---------------------------------------------------------------------------
(* Calendar                                                                *)

CalendarShared == [ calendar EXCEPT !.prodid = <<>>, !.version = <<>> ]

\* Calendar(): no property, no component
Calendar == [ prodid |-> <<>>, version |-> <<>>, components |-> <<>> ]

AddComponentFirst(cal, ev) == [ cal EXCEPT !.components = <<ev>> \o @ ]

\* icalendar's add_component
AddComponent(cal, ev) == [ cal EXCEPT !.components = Append(@, ev) ]

\* the eight holidays of add_easter: distance from Easter, summary, work
EasterHolidays ==
    << [delta |-> 0 - Timedelta(0, 3), summary |-> "Skartorsdagen",         work |-> "DEPENDS"],
       [delta |-> 0 - Timedelta(0, 2), summary |-> "Langfredagen",          work |-> "FREE"],
       [delta |-> 0 - Timedelta(0, 1), summary |-> "Paskafton",             work |-> "FREE"],
       [delta |-> 0,                   summary |-> "Paskdagen",             work |-> "FREE"],
       [delta |-> Timedelta(0, 1),     summary |-> "Annandag pask",         work |-> "FREE"],
       [delta |-> Timedelta(5, 4),     summary |-> "Kristi himmelsfardsdag", work |-> "FREE"],
       [delta |-> Timedelta(6, 6),     summary |-> "Pingstafton",           work |-> "FREE"],
       [delta |-> Timedelta(7, 0),     summary |-> "Pingstdagen",           work |-> "FREE"] >>

add_easter_without_last(cal, year, clock) ==
    LET easter == Easter(year)
        event(k) == Holiday(clock + k, AddDays(easter, EasterHolidays[k].delta),
                            EasterHolidays[k].summary, EasterHolidays[k].work)
    IN  [ cal EXCEPT !.components =
            @ \o [ k \in 1..(Len(EasterHolidays) - 1) |-> event(k) ] ]

\* Calendar.add_easter, once easter(year) has returned a date
add_easter(cal, year, clock) ==
    LET easter == Easter(year)
        event(k) == Holiday(clock + k, AddDays(easter, EasterHolidays[k].delta),
                            EasterHolidays[k].summary, EasterHolidays[k].work)
    IN  [ cal EXCEPT !.components =
            @ \o [ k \in 1..Len(EasterHolidays) |-> event(k) ] ]

MidsummersEveRule == Recur(<<"FR">>, <<19, 20, 21, 22, 23, 24, 25>>, <<6>>)
MidsummerDayRuleEveDays == Recur(<<"SA">>, <<19, 20, 21, 22, 23, 24, 25>>, <<6>>)
MidsummerDayRule  == Recur(<<"SA">>, <<20, 21, 22, 23, 24, 25, 26>>, <<6>>)
AllSaintsEveRule  == Recur(<<"FR">>, <<30, 31, 1, 2, 3, 4, 5>>, <<10, 11>>)
AllSaintsDayRule  == Recur(<<"SA">>, <<31, 1, 2, 3, 4, 5, 6>>, <<10, 11>>)

add_midsummers_eve(cal, year, uid) ==
    AddComponent(cal, [ Holiday(uid, Date(year, 1, 1), "Midsommarafton", "DEFACTO")
                          EXCEPT !.rrule = <<MidsummersEveRule>> ])

add_midsummer_day(cal, year, uid) ==
    AddComponent(cal, [ Holiday(uid, Date(year, 1, 1), "Midsommardagen", "FREE")
                          EXCEPT !.rrule = <<MidsummerDayRule>> ])

add_all_saints_eve(cal, year, uid) ==
    AddComponent(cal, [ Holiday(uid, Date(year, 1, 1), "Allhelgonaafton", "DEPENDS")
                          EXCEPT !.rrule = <<AllSaintsEveRule>> ])

add_all_saints_day(cal, year, uid) ==
    AddComponent(cal, [ Holiday(uid, Date(year, 1, 1), "Alla helgons dag", "FREE")
                          EXCEPT !.rrule = <<AllSaintsDayRule>> ])

---------------------------------------------------------------------------
(* generate                                                                *)

\* an exception leaves generate: the caller gets the exception and no value
Raise(exc) ==
    /\ returned' = Append(returned, [ start_year |-> start_year, count |-> count,
                                      outcome |-> exc, value |-> <<>> ])
    /\ pc' = "done"
    /\ UNCHANGED <<start_year, count, i, calendar, uuid_clock, occ>>

\* calendar.add_component(FixedHoliday(date(start_year, month, day), summary, work))
FixedStmt(here, next, month, day, summary, work) ==
    /\ pc = here
    /\ IF DateOK(start_year, month, day)
       THEN /\ calendar' = AddComponent(calendar,
                              FixedHoliday(Uuid1(uuid_clock),
                                           Date(start_year, month, day), summary, work))
            /\ uuid_clock' = Uuid1(uuid_clock)
            /\ pc' = next
            /\ UNCHANGED <<start_year, count, i, returned, occ>>
       ELSE Raise("ValueError")

\* calendar.add_...(start_year), whose first step is date(year, 1, 1)
WindowStmt(here, next, cal) ==
    /\ pc = here
    /\ IF DateOK(start_year, 1, 1)
       THEN /\ calendar' = cal
            /\ uuid_clock' = Uuid1(uuid_clock)
            /\ pc' = next
            /\ UNCHANGED <<start_year, count, i, returned, occ>>
       ELSE Raise("ValueError")

L21 ==
    /\ pc = "L21"
    /\ calendar' = [ Calendar EXCEPT
                       !.prodid  = <<"-//Mozilla.org/NONSGML Mozilla Calendar V1.1//">>,
                       !.version = <<"2.0">> ]
    /\ pc' = "L24"
    /\ UNCHANGED <<start_year, count, i, uuid_clock, returned, occ>>

L24 == FixedStmt("L24", "L25", 1, 1, "Nyarsdagen", "FREE")
L25 == FixedStmt("L25", "L26", 1, 5, "Trettondagsafton", "DEPENDS")
L26 == FixedStmt("L26", "L27", 1, 6, "Trettondedag jul", "FREE")

\* for i in range(count): i counts the iterations made
L27 ==
    /\ pc = "L27"
    /\ pc' = IF i < count THEN "L28" ELSE "L29"
    /\ UNCHANGED <<start_year, count, i, calendar, uuid_clock, returned, occ>>

\* calendar.add_easter(start_year + i)
L28 ==
    /\ pc = "L28"
    /\ LET year   == start_year + i
           easter == Easter(year)
       IN  IF DateOK(easter.year, easter.month, easter.day)
           THEN /\ calendar' = add_easter(calendar, year, uuid_clock)
                /\ uuid_clock' = uuid_clock + Len(EasterHolidays)
                /\ i' = i + 1
                /\ pc' = "L27"
                /\ UNCHANGED <<start_year, count, returned, occ>>
           ELSE Raise("ValueError")

L29 == FixedStmt("L29", "L31", 4, 30, "Valborgsmassoafton", "DEPENDS")
L31 == FixedStmt("L31", "L32", 5, 1, "Forsta maj", "FREE")
L32 == FixedStmt("L32", "L33", 6, 6, "Sveriges nationaldag", "FREE")
L33 == WindowStmt("L33", "L34", add_midsummers_eve(calendar, start_year, Uuid1(uuid_clock)))
L34 == WindowStmt("L34", "L35", add_midsummer_day(calendar, start_year, Uuid1(uuid_clock)))
L35 == WindowStmt("L35", "L36", add_all_saints_eve(calendar, start_year, Uuid1(uuid_clock)))
L36 == WindowStmt("L36", "L37", add_all_saints_day(calendar, start_year, Uuid1(uuid_clock)))
L37 == FixedStmt("L37", "L38", 12, 24, "Julafton", "DEFACTO")
L38 == FixedStmt("L38", "L39", 12, 25, "Juldagen", "FREE")
L39 == FixedStmt("L39", "L40", 12, 26, "Annandag jul", "FREE")
L40 == FixedStmt("L40", "L41", 12, 31, "Nyarsafton", "DEFACTO")

\* return calendar
L41 ==
    /\ pc = "L41"
    /\ returned' = Append(returned, [ start_year |-> start_year, count |-> count,
                                      outcome |-> "returned", value |-> <<calendar>> ])
    /\ pc' = "done"
    /\ UNCHANGED <<start_year, count, i, calendar, uuid_clock, occ>>

\* main(), or any other caller, calls generate once more
CallAgain(sy, c) ==
    /\ pc = "done"
    /\ Len(returned) < MaxCalls
    /\ start_year' = sy
    /\ count' = c
    /\ i' = 0
    /\ pc' = "L21"
    /\ UNCHANGED <<calendar, uuid_clock, returned, occ>>

---------------------------------------------------------------------------
(* A calendar application reading the document: the dates of year y that   *)
(* an event occupies.  An event without a rule is its start date; a yearly *)
(* rule selects the days of year y whose month is in BYMONTH, whose day of *)
(* the month is in BYMONTHDAY and whose weekday is in BYDAY, a missing key *)
(* standing for the value of the start date (RFC 5545, 3.3.10).            *)

WeekdayCode == <<"MO", "TU", "WE", "TH", "FR", "SA", "SU">>

Range(s) == { s[k] : k \in DOMAIN s }

RecurDates(ev, y) ==
    IF ev.rrule = <<>>
    THEN IF ev.dtstart.year = y THEN {ev.dtstart} ELSE {}
    ELSE LET r      == ev.rrule[1]
             months == IF r.BYMONTH = <<>> THEN {ev.dtstart.month} ELSE Range(r.BYMONTH)
             days   == IF r.BYMONTHDAY = <<>> THEN {ev.dtstart.day} ELSE Range(r.BYMONTHDAY)
             hit(m, d) == /\ DateOK(y, m, d)
                          /\ \/ r.BYDAY = <<>>
                             \/ WeekdayCode[Weekday(Date(y, m, d)) + 1] \in Range(r.BYDAY)
         IN  { Date(y, md[1], md[2]) : md \in { x \in months \X days : hit(x[1], x[2]) } }

Expand(y) ==
    /\ pc = "done"
    /\ occ = <<>>
    /\ returned # <<>>
    /\ returned[Len(returned)].outcome = "returned"
    /\ y <= MAXYEAR
    /\ LET doc == returned[Len(returned)].value[1].components
       IN  occ' = << [ year  |-> y,
                       dates |-> [ k \in 1..Len(doc) |-> RecurDates(doc[k], y) ] ] >>
    /\ UNCHANGED <<start_year, count, pc, i, calendar, uuid_clock, returned>>

---------------------------------------------------------------------------
(* Specifications                                                          *)

StartYears ==
    {MINYEAR - 1, MINYEAR, MAXYEAR - 1, MAXYEAR, MAXYEAR + 1} \cup (2000 .. 2000 + YearSpan)

InitWith(years, counts) ==
    /\ start_year \in years
    /\ count \in counts
    /\ pc = "L21"
    /\ i = 0
    /\ calendar = [ prodid |-> <<>>, version |-> <<>>, components |-> <<>> ]
    /\ uuid_clock = 0
    /\ returned = <<>>
    /\ occ = <<>>

Generate ==
    \/ L21 \/ L24 \/ L25 \/ L26 \/ L27 \/ L28 \/ L29 \/ L31 \/ L32 \/ L33
    \/ L34 \/ L35 \/ L36 \/ L37 \/ L38 \/ L39 \/ L40 \/ L41

\* one call of generate, with any arguments
Init == InitWith(StartYears, (0 - 1) .. MaxCount)
Next == Generate
Spec == Init /\ [][Next]_vars

\* several calls of generate, one after the other, in one process
InitTwice == InitWith({2024, MAXYEAR, MAXYEAR + 1}, 0 .. MaxCountTwice)
NextTwice ==
    \/ Generate
    \/ \E sy \in {2024, MAXYEAR, MAXYEAR + 1} : \E c \in 0 .. MaxCountTwice : CallAgain(sy, c)
SpecTwice == InitTwice /\ [][NextTwice]_vars

\* one call of generate, and a calendar application reading its document
InitRecur == InitWith({2000, 2024}, 0 .. MaxCountTwice)
NextRecur ==
    \/ Generate
    \/ \E y \in start_year .. start_year + EvalSpan : Expand(y)
SpecRecur == InitRecur /\ [][NextRecur]_vars

---------------------------------------------------------------------------
(* The claims                                                              *)

\* the calls that returned a document, and the components of the document
Returned == { k \in DOMAIN returned : returned[k].outcome = "returned" }
Components(k) == returned[k].value[1].components
Summaries(comps) == [ k \in DOMAIN comps |-> comps[k].summary ]
WithSummary(comps, name) == { k \in DOMAIN comps : comps[k].summary = name }

\* C1 (as amended): a document returned by generate(start_year, count) with
\* count >= 1 holds exactly 14 + 8*count events: the ten fixed-date events
\* and the four weekday-window events, added once, and eight Easter events
\* for each of the count years.
C1_EventCount ==
    \A k \in Returned :
        returned[k].count >= 1 => Len(Components(k)) = 14 + 8 * returned[k].count

\* C1 (as stated): the document holds exactly 12 + 8*count events.
C1_AsStated ==
    \A k \in Returned :
        returned[k].count >= 1 => Len(Components(k)) = 12 + 8 * returned[k].count

C1_Witness ==
    \E k \in Returned :
        /\ returned[k].count = 3
        /\ returned[k].start_year \in MINYEAR .. MAXYEAR
        /\ Len(Components(k)) = 38

\* C2: generate(start_year, count) with count < 1 fails with an error and
\* returns no document.
C2_CountBelowOneFails ==
    \A k \in DOMAIN returned :
        returned[k].count < 1 =>
            returned[k].outcome # "returned" /\ returned[k].value = <<>>

\* the dates a calendar application found for the event called name
OccOf(name) ==
    LET doc == Components(Len(returned))
    IN  UNION { occ[1].dates[k] : k \in WithSummary(doc, name) }

InWindow(dt, m1, d1, m2, d2) ==
    /\ ToOrdinal(Date(dt.year, m1, d1)) <= ToOrdinal(dt)
    /\ ToOrdinal(dt) <= ToOrdinal(Date(dt.year, m2, d2))

\* C3: in every year the All Saints' Eve rule selects only Fridays between
\* October 30 and November 5, and the All Saints' Day rule selects exactly
\* the Saturdays that follow them.
C3_AllSaintsWindow ==
    occ # <<>> =>
        /\ \A dt \in OccOf("Allhelgonaafton") :
              Weekday(dt) = 4 /\ InWindow(dt, 10, 30, 11, 5)
        /\ OccOf("Alla helgons dag") = { AddDays(dt, 1) : dt \in OccOf("Allhelgonaafton") }

\* C4: in every year the Midsummer Eve rule selects exactly one date, a
\* Friday between June 19 and June 25, and the Midsummer Day rule selects
\* exactly the Saturday that follows it.
C4_MidsummerWindow ==
    occ # <<>> =>
        /\ Cardinality(OccOf("Midsommarafton")) = 1
        /\ \A dt \in OccOf("Midsommarafton") :
              /\ dt.year = occ[1].year
              /\ Weekday(dt) = 4
              /\ InWindow(dt, 6, 19, 6, 25)
        /\ OccOf("Midsommardagen") = { AddDays(dt, 1) : dt \in OccOf("Midsommarafton") }
        /\ \A dt \in OccOf("Midsommardagen") : Weekday(dt) = 5

\* a year in which Midsummer Eve is the last day of its window, June 25
C4_Witness ==
    /\ occ # <<>>
    /\ OccOf("Midsommarafton") = { Date(occ[1].year, 6, 25) }
    /\ OccOf("Midsommardagen") = { Date(occ[1].year, 6, 26) }

\* the Easter holidays: summary, days after Easter Sunday, weekday
C5_Offsets ==
    { <<"Skartorsdagen", 0 - 3, 3>>, <<"Langfredagen", 0 - 2, 4>>,
      <<"Paskafton", 0 - 1, 5>>, <<"Paskdagen", 0, 6>>, <<"Annandag pask", 1, 0>>,
      <<"Kristi himmelsfardsdag", 39, 3>>, <<"Pingstafton", 48, 5>>,
      <<"Pingstdagen", 49, 6>> }

C5_Year2024 ==
    { <<"Paskdagen", Date(2024, 3, 31)>>, <<"Skartorsdagen", Date(2024, 3, 28)>>,
      <<"Kristi himmelsfardsdag", Date(2024, 5, 9)>>, <<"Pingstdagen", Date(2024, 5, 19)>> }

\* C5: for every generated year Y the document holds exactly eight events
\* without a recurrence rule, one for each Easter holiday, at easter(Y) plus
\* -3, -2, -1, 0, +1, +39, +48 and +49 days; in 2024 Easter Sunday is
\* March 31, Maundy Thursday March 28, Ascension Day May 9 and Whit Sunday
\* May 19.
C5_EasterOffsets ==
    \A k \in Returned :
        LET comps == Components(k)
            once  == { n \in DOMAIN comps : comps[n].rrule = <<>> }
            years == returned[k].start_year .. returned[k].start_year + returned[k].count - 1
        IN  /\ \A n \in once : comps[n].dtstart.year \in years
            /\ \A y \in years :
                  LET of_y == { n \in once : comps[n].dtstart.year = y }
                  IN  /\ Cardinality(of_y) = 8
                      /\ \A row \in C5_Offsets :
                            \E n \in of_y :
                                /\ comps[n].summary = row[1]
                                /\ ToOrdinal(comps[n].dtstart)
                                     = ToOrdinal(Easter(y)) + row[2]
                                /\ Weekday(comps[n].dtstart) = row[3]
                      /\ y = 2024 =>
                            \A row \in C5_Year2024 :
                                \E n \in of_y : /\ comps[n].summary = row[1]
                                                /\ comps[n].dtstart = row[2]

C5_Witness ==
    \E k \in Returned :
        /\ returned[k].start_year = 2023
        /\ returned[k].count = 2
        /\ \E n \in DOMAIN Components(k) :
              /\ Components(k)[n].summary = "Kristi himmelsfardsdag"
              /\ Components(k)[n].dtstart = Date(2024, 5, 9)

C6_EasterNames ==
    << "Skartorsdagen", "Langfredagen", "Paskafton", "Paskdagen", "Annandag pask",
       "Kristi himmelsfardsdag", "Pingstafton", "Pingstdagen" >>
C6_FixedNames ==
    << "Nyarsdagen", "Trettondagsafton", "Trettondedag jul", "Valborgsmassoafton",
       "Forsta maj", "Sveriges nationaldag", "Julafton", "Juldagen", "Annandag jul",
       "Nyarsafton" >>
C6_WindowNames ==
    << "Midsommarafton", "Midsommardagen", "Allhelgonaafton", "Alla helgons dag" >>

RECURSIVE C6_Repeat(_, _)
C6_Repeat(s, n) == IF n <= 0 THEN <<>> ELSE s \o C6_Repeat(s, n - 1)

\* the order of the body of generate: the three holidays of January, the
\* Easter holidays year by year, then the rest of the year
C6_CodeOrder(n) ==
    SubSeq(C6_FixedNames, 1, 3) \o C6_Repeat(C6_EasterNames, n)
        \o SubSeq(C6_FixedNames, 4, 6) \o C6_WindowNames \o SubSeq(C6_FixedNames, 7, 10)

C6_IsPrefix(s, t) == Len(s) <= Len(t) /\ s = SubSeq(t, 1, Len(s))

\* C6 (as amended): generate appends the events in one fixed order, whatever
\* start_year and count are: New Year's Day, Epiphany Eve, Epiphany, then
\* the eight Easter events of each year, year by year, then Walpurgis Eve,
\* May Day, National Day, Midsummer Eve, Midsummer Day, All Saints' Eve,
\* All Saints' Day, Christmas Eve, Christmas Day, Boxing Day, New Year's Eve.
C6_AppendOrder ==
    /\ pc \notin {"L21", "done"} =>
          C6_IsPrefix(Summaries(calendar.components), C6_CodeOrder(count))
    /\ \A k \in Returned :
          Summaries(Components(k)) = C6_CodeOrder(returned[k].count)

\* C6 (as stated): the Easter events come first, then the fixed-date
\* holidays, then the four weekday-window events.
C6_AsStated ==
    \A k \in Returned :
        Summaries(Components(k))
            = C6_Repeat(C6_EasterNames, returned[k].count) \o C6_FixedNames \o C6_WindowNames

C6_Witness ==
    \E k \in Returned :
        /\ returned[k].count = 2
        /\ Components(k)[3].summary = "Trettondedag jul"
        /\ Components(k)[4].summary = "Skartorsdagen"
        /\ Components(k)[20].summary = "Valborgsmassoafton"
        /\ Components(k)[30].summary = "Nyarsafton"

\* a result of generate without the unique identifiers of its events
C7_NoUid(r) ==
    [ outcome |-> r.outcome,
      value   |-> [ v \in DOMAIN r.value |->
                      [ prodid  |-> r.value[v].prodid,
                        version |-> r.value[v].version,
                        components |->
                            [ n \in DOMAIN r.value[v].components |->
                                LET e == r.value[v].components[n]
                                IN  [ transp |-> e.transp, dtstart |-> e.dtstart,
                                      summary |-> e.summary, categories |-> e.categories,
                                      description |-> e.description, rrule |-> e.rrule ] ] ] ] ]

C7_SameArgs(a, b) ==
    /\ returned[a].start_year = returned[b].start_year
    /\ returned[a].count = returned[b].count

C8_FixedDates ==
    { <<"Nyarsdagen", 1, 1>>, <<"Trettondagsafton", 1, 5>>, <<"Trettondedag jul", 1, 6>>,
      <<"Valborgsmassoafton", 4, 30>>, <<"Forsta maj", 5, 1>>,
      <<"Sveriges nationaldag", 6, 6>>, <<"Julafton", 12, 24>>, <<"Juldagen", 12, 25>>,
      <<"Annandag jul", 12, 26>>, <<"Nyarsafton", 12, 31>> }

\* C8: whatever count >= 1 is, each fixed-date holiday is in the document
\* exactly once, anchored at its month and day of start_year, with a rule
\* that is yearly and has no by-day, by-month-day or by-month part.
C8_FixedOnce ==
    \A k \in Returned :
        returned[k].count >= 1 =>
            \A row \in C8_FixedDates :
                LET at == WithSummary(Components(k), row[1])
                IN  /\ Cardinality(at) = 1
                    /\ \A n \in at :
                          /\ Components(k)[n].dtstart
                               = Date(returned[k].start_year, row[2], row[3])
                          /\ Components(k)[n].rrule
                               = << [ FREQ |-> "YEARLY", BYDAY |-> <<>>,
                                      BYMONTHDAY |-> <<>>, BYMONTH |-> <<>> ] >>

\* generate(2000, 3)
C8_Witness ==
    \E k \in Returned :
        /\ returned[k].start_year = 2000
        /\ returned[k].count = 3
        /\ \E n \in WithSummary(Components(k), "Nyarsdagen") :
              /\ Components(k)[n].dtstart = Date(2000, 1, 1)
              /\ Components(k)[n].rrule[1].FREQ = "YEARLY"

\* C9: with a start_year outside 1 .. 9999 generate ends with an error
\* whatever count is, having added no event, and whenever generate ends
\* with an error its caller receives no document, whatever was added
\* before.
C9_OutOfRangeFails ==
    /\ start_year \notin 1 .. 9999 =>
          /\ calendar.components = <<>>
          /\ pc = "done" => returned[Len(returned)].outcome = "ValueError"
    /\ \A k \in DOMAIN returned :
          returned[k].outcome # "returned" => returned[k].value = <<>>

\* generate(10000, 3) has ended
C9_Witness ==
    /\ pc = "done"
    /\ start_year = 10000
    /\ count = 3
    /\ returned[Len(returned)].outcome = "ValueError"
    /\ returned[Len(returned)].value = <<>>

C10_Depends == { "Skartorsdagen", "Trettondagsafton", "Valborgsmassoafton", "Allhelgonaafton" }
C10_Defacto == { "Midsommarafton", "Julafton", "Nyarsafton" }

\* C10: in a returned document the holidays listed as DEPENDS carry the
\* category tag and a description, those listed as DEFACTO carry a
\* description and no category tag, and all others carry neither; the
\* category and the description depend on nothing but that status.
C10_Annotations ==
    \A k \in Returned :
        \A n \in DOMAIN Components(k) :
            LET e == Components(k)[n]
            IN  IF e.summary \in C10_Depends
                THEN /\ e.categories = <<"Ledighet enligt avtal">>
                     /\ e.description = <<DescriptionDepends>>
                ELSE IF e.summary \in C10_Defacto
                THEN /\ e.categories = <<>>
                     /\ e.description = <<DescriptionDefacto>>
                ELSE /\ e.categories = <<>>
                     /\ e.description = <<>>

C10_Witness ==
    \E k \in Returned :
        /\ returned[k].count >= 1
        /\ \E n \in WithSummary(Components(k), "Skartorsdagen") :
              Components(k)[n].categories # <<>>
        /\ \E n \in WithSummary(Components(k), "Julafton") :
              Components(k)[n].categories = <<>> /\ Components(k)[n].description # <<>>
        /\ \E n \in WithSummary(Components(k), "Paskdagen") :
              Components(k)[n].description = <<>>

=============================================================================
